---- MODULE Spec2Model ----
(***************************************************************************)
(* A model of the exceptions crate (src/src/lib.rs) and of the way its     *)
(* macros are used by a client (src/src/main.rs).                          *)
(*                                                                         *)
(* Values.  A String or &str is a TLA+ string.  Option<T> is None or       *)
(* Some(v); Box<T> is Box(v) and is opened with deref.  An Exception is a  *)
(* record with the three fields of the struct.  Text written to stderr is  *)
(* the string of the characters written, in order.                         *)
(***************************************************************************)
EXTENDS Integers, Sequences, FiniteSets, TLC

VARIABLES
    th,      \* the throwable the client holds (an Exception), or None
    bx,      \* the same throwable built and driven through Box<..>, or None
    op,      \* the last operation performed and its argument
    got,     \* what the last getter returned
    err,     \* what the last print_stack_trace wrote to stderr
    pushed,  \* history: the entries pushed on th since it was made, oldest first
    made,    \* history: th as its constructor or conversion returned it
    frames,  \* the call stack of the client functions that use the macros
    ret      \* the Result the innermost evaluated expression has produced

vars == <<th, bx, op, got, err, pushed, made, frames, ret>>
apiVars == <<th, bx, got, pushed, made>>
macroVars == <<frames, ret>>

----------------------------------------------------------------------------
(* Bounds of the model *)

\* most entries a throwable and its causes hold together in the object model
MaxTrace == 3
\* most exceptions in one cause chain
MaxChain == 2

----------------------------------------------------------------------------
(* Option, Box, StackEntry *)

None == [kind |-> "None"]
Some(v) == [kind |-> "Some", val |-> v]
Box(v) == [kind |-> "Box", inner |-> v]
deref(b) == b.inner

StackEntry(file, line, expr) == [file |-> file, line |-> line, expr |-> expr]

\* Vec::insert(index, element): everything from index on shifts right
VecInsert(v, index, element) ==
    SubSeq(v, 1, index) \o <<element>> \o SubSeq(v, index + 1, Len(v))

----------------------------------------------------------------------------
(* struct Exception and its constructors *)

Exception_new(message) ==
    [kind |-> "Exception", message |-> message, stack |-> <<>>, cause |-> None]

NewWithCauseKeepsTrace(message, cause) ==
    [kind |-> "Exception", message |-> message,
     stack |-> (IF cause.kind = "Box" THEN cause.inner.stack ELSE cause.stack),
     cause |-> Some(Box(cause))]

Exception_new_with_cause(message, cause) ==
    [kind |-> "Exception", message |-> message, stack |-> <<>>,
     cause |-> Some(Box(cause))]

----------------------------------------------------------------------------
(* impl Throwable for Exception *)

PushReplaces(self, file, line, expr) ==
    [self EXCEPT !.stack = <<StackEntry(file, line, expr)>>]

PushAtEnd(self, file, line, expr) ==
    [self EXCEPT !.stack = Append(@, StackEntry(file, line, expr))]

Exception_push_stack(self, file, line, expr) ==
    [self EXCEPT !.stack = VecInsert(@, 0, StackEntry(file, line, expr))]

Exception_get_stack_trace(self) == self.stack

Exception_get_message(self) == self.message

Exception_get_cause(self) ==
    IF self.cause.kind = "Some" THEN Some(deref(self.cause.val)) ELSE None

----------------------------------------------------------------------------
(* impl Throwable for Box<T>, and the calls through the trait *)

RECURSIVE push_stack(_, _, _, _)
RECURSIVE get_stack_trace(_)
RECURSIVE get_message(_)
RECURSIVE get_cause(_)

BoxKeepsTrace(self, file, line, expr) == self

Box_push_stack(self, file, line, expr) ==
    [self EXCEPT !.inner = push_stack(@, file, line, expr)]

Box_get_stack_trace(self) == get_stack_trace(deref(self))

Box_get_message(self) == get_message(deref(self))

Box_get_cause(self) == get_cause(deref(self))

\* a call of a trait method runs the implementation of the receiver's type
push_stack(self, file, line, expr) ==
    IF self.kind = "Box" THEN Box_push_stack(self, file, line, expr)
    ELSE Exception_push_stack(self, file, line, expr)

get_stack_trace(self) ==
    IF self.kind = "Box" THEN Box_get_stack_trace(self)
    ELSE Exception_get_stack_trace(self)

get_message(self) ==
    IF self.kind = "Box" THEN Box_get_message(self)
    ELSE Exception_get_message(self)

get_cause(self) ==
    IF self.kind = "Box" THEN Box_get_cause(self)
    ELSE Exception_get_cause(self)

----------------------------------------------------------------------------
(* Throwable::print_stack_trace, the provided method: the text it writes *)

\* writeln!(err, "\tat {} [{}:{}]", s.expr, s.file, s.line)
EntryLine(s) ==
    "\tat " \o s.expr \o " [" \o s.file \o ":" \o ToString(s.line) \o "]\n"

\* for s in self.get_stack_trace() { writeln!(..) }
RECURSIVE WriteEntries(_)
WriteEntries(stack) ==
    IF stack = <<>> THEN ""
    ELSE EntryLine(Head(stack)) \o WriteEntries(Tail(stack))

RECURSIVE print_stack_trace(_)

PrintWithoutCause(self) ==
    get_message(self) \o "\n" \o WriteEntries(get_stack_trace(self))

print_stack_trace(self) ==
    LET cause == get_cause(self) IN
    get_message(self) \o "\n"
    \o WriteEntries(get_stack_trace(self))
    \o (IF cause.kind = "Some"
        THEN "Caused by: " \o print_stack_trace(cause.val)
        ELSE "")

----------------------------------------------------------------------------
(* Raw failure values and impl IntoThrowable<Exception> for them *)

Str(text) == [kind |-> "str", text |-> text]
String(text) == [kind |-> "String", text |-> text]
FmtError == [kind |-> "fmt::Error"]
\* an io::Error shows itself (Display) as its description
IoError(description) == [kind |-> "io::Error", description |-> description]

\* ToString::to_string of a &str and of an io::Error
to_string(self) ==
    IF self.kind = "io::Error" THEN self.description ELSE self.text

into_throwable_str(self) == Exception_new(to_string(self))

into_throwable_String(self) == Exception_new(self.text)

FmtKeepsNothing(self) == Exception_new("")

into_throwable_fmt_Error(self) == Exception_new("Formatting Exception")

into_throwable_io_Error(self) == Exception_new(to_string(self))

Rewrap(self) == Exception_new(get_message(self))

\* impl <T: Throwable> IntoThrowable<T> for T
into_throwable_T(self) == self

\* the implementation is chosen by the static type of the value
into_throwable(self) ==
    CASE self.kind = "str" -> into_throwable_str(self)
      [] self.kind = "String" -> into_throwable_String(self)
      [] self.kind = "fmt::Error" -> into_throwable_fmt_Error(self)
      [] self.kind = "io::Error" -> into_throwable_io_Error(self)
      [] OTHER -> into_throwable_T(self)

----------------------------------------------------------------------------
(* The inputs the model draws from *)

Messages == {"boom", "wrap"}

Sites == {StackEntry("a.src", 10, "readFile()"),
          StackEntry("b.src", 20, "load()")}

RawFailures == {Str("disk full"), String("root cause"), FmtError,
                IoError("entity not found")}

RECURSIVE ChainLen(_)
ChainLen(t) ==
    LET c == get_cause(t) IN
    IF c.kind = "Some" THEN 1 + ChainLen(c.val) ELSE 1

RECURSIVE TotalEntries(_)
TotalEntries(t) ==
    LET c == get_cause(t) IN
    Len(get_stack_trace(t)) + (IF c.kind = "Some" THEN TotalEntries(c.val) ELSE 0)

Op(name, arg) == [name |-> name, arg |-> arg]

----------------------------------------------------------------------------
(* The object model: one throwable, every operation of the library on it *)

Init ==
    /\ th = None
    /\ bx = None
    /\ op = Op("init", None)
    /\ got = None
    /\ err = ""
    /\ pushed = <<>>
    /\ made = None
    /\ frames = <<>>
    /\ ret = None

New(m) ==
    /\ th' = Exception_new(m)
    /\ bx' = Box(Exception_new(m))
    /\ op' = Op("new", m)
    /\ got' = None /\ err' = "" /\ pushed' = <<>>
    /\ made' = th'
    /\ UNCHANGED macroVars

\* the exception held so far is moved into the new one as its cause
NewWithCause(m) ==
    /\ th # None
    /\ ChainLen(th) < MaxChain
    /\ th' = Exception_new_with_cause(m, th)
    /\ bx' = Box(Exception_new_with_cause(m, bx))
    /\ op' = Op("new_with_cause", m)
    /\ got' = None /\ err' = "" /\ pushed' = <<>>
    /\ made' = th'
    /\ UNCHANGED macroVars

IntoThrowable(raw) ==
    /\ th' = into_throwable(raw)
    /\ bx' = Box(into_throwable(raw))
    /\ op' = Op("into_throwable", raw)
    /\ got' = None /\ err' = "" /\ pushed' = <<>>
    /\ made' = th'
    /\ UNCHANGED macroVars

IntoThrowableSelf ==
    /\ th # None
    /\ th' = into_throwable(th)
    /\ bx' = into_throwable(bx)
    /\ op' = Op("into_throwable_T", None)
    /\ got' = None /\ err' = ""
    /\ UNCHANGED <<pushed, made, macroVars>>

PushStack(s) ==
    /\ th # None
    /\ TotalEntries(th) < MaxTrace
    /\ th' = push_stack(th, s.file, s.line, s.expr)
    /\ bx' = push_stack(bx, s.file, s.line, s.expr)
    /\ op' = Op("push_stack", s)
    /\ pushed' = Append(pushed, s)
    /\ got' = None /\ err' = ""
    /\ UNCHANGED <<made, macroVars>>

GetStackTrace ==
    /\ th # None
    /\ got' = get_stack_trace(th)
    /\ op' = Op("get_stack_trace", None)
    /\ err' = ""
    /\ UNCHANGED <<th, bx, pushed, made, macroVars>>

GetMessage ==
    /\ th # None
    /\ got' = get_message(th)
    /\ op' = Op("get_message", None)
    /\ err' = ""
    /\ UNCHANGED <<th, bx, pushed, made, macroVars>>

GetCause ==
    /\ th # None
    /\ got' = get_cause(th)
    /\ op' = Op("get_cause", None)
    /\ err' = ""
    /\ UNCHANGED <<th, bx, pushed, made, macroVars>>

PrintStackTrace ==
    /\ th # None
    /\ err' = print_stack_trace(th)
    /\ op' = Op("print_stack_trace", None)
    /\ got' = None
    /\ UNCHANGED <<th, bx, pushed, made, macroVars>>

Next ==
    \/ \E m \in Messages : New(m)
    \/ \E m \in Messages : NewWithCause(m)
    \/ \E raw \in RawFailures : IntoThrowable(raw)
    \/ IntoThrowableSelf
    \/ \E s \in Sites : PushStack(s)
    \/ GetStackTrace
    \/ GetMessage
    \/ GetCause
    \/ PrintStackTrace

Spec == Init /\ [][Next]_vars

----------------------------------------------------------------------------
(* Result values, and the bodies of the four macros *)

Ok(v) == [kind |-> "Ok", val |-> v]
Err(e) == [kind |-> "Err", err |-> e]

\* stringify!(name!($expr))
Stringify(name, expr) == name \o "!(" \o expr \o ")"

TryFallsThrough(result, file, line, expr) ==
    IF result.kind = "Ok"
    THEN [ctl |-> "value", val |-> result.val]
    ELSE [ctl |-> "value",
          val |-> Err(push_stack(into_throwable(result.err), file, line, expr))]

\* try!($expr): the match.  ctl says whether the enclosing function goes on
\* with val or returns val
try_match(result, file, line, expr) ==
    IF result.kind = "Ok"
    THEN [ctl |-> "value", val |-> result.val]
    ELSE LET th0 == into_throwable(result.err)
             th1 == push_stack(th0, file, line, expr)
         IN [ctl |-> "return", val |-> Err(th1)]

\* throw!($expr)
throw_block(e0, file, line, expr) ==
    LET e == into_throwable(e0)
        e1 == push_stack(e, file, line, Stringify("throw", expr))
    IN [ctl |-> "return", val |-> Err(e1)]

PrintOnly(e, file, line, expr) ==
    [e |-> e, out |-> print_stack_trace(e)]

\* print_stack_trace!($expr): e is $expr afterwards, out is what was written
print_stack_trace_block(e, file, line, expr) ==
    LET e1 == push_stack(e, file, line, Stringify("print_stack_trace", expr))
    IN [e |-> e1, out |-> print_stack_trace(e1)]

\* catch!($expr): the match; its value is a Result
catch_match(result, file, line, expr) ==
    IF result.kind = "Ok"
    THEN Ok(result.val)
    ELSE LET th0 == into_throwable(result.err)
             th1 == push_stack(th0, file, line, expr)
         IN Err(th1)

CatchNeverBreaks(result, i, n) == i = n

\* catch!($($expr); *;): after result = catch!(expr_i), does the loop end?
catch_breaks(result, i, n) == result.kind = "Err" \/ i = n

----------------------------------------------------------------------------
(* The client: functions that call each other through the macros *)

\* most client functions on the call stack
MaxDepth == 3
\* most uses of print_stack_trace! on one caught throwable
MaxPrints == 2

\* the uses of try! and catch! in src/main.rs: file!(), line!() and the
\* text of each expression
TryUses == {
    [file |-> "src/main.rs", line |-> 12, exprs |-> <<"test1()">>],
    [file |-> "src/main.rs", line |-> 18,
     exprs |-> <<"test0()", "test0()", "test2()">>]}

CatchUses == {
    [file |-> "src/main.rs", line |-> 36, exprs |-> <<"test3()", "test0()">>]}

ThrowUses == {
    [file |-> "src/main.rs", line |-> 7, expr |-> "\"This is an exception\"",
     value |-> Str("This is an exception")]}

PrintUse == [file |-> "src/main.rs", line |-> 37, expr |-> "e"]

\* what an expression that uses no macro may produce
Values == {0, 1}
LeafFailures == {Str("This is an error"), FmtError,
                 Exception_new_with_cause("wrap", Exception_new("root cause"))}
LeafResults == {Ok(v) : v \in Values} \cup {Err(e) : e \in LeafFailures}

Idle == [mac |-> "none", file |-> "", line |-> 0, exprs |-> <<>>, i |-> 0,
         val |-> None, caught |-> None, printed |-> 0]

Top == frames[Len(frames)]
Front(s) == SubSeq(s, 1, Len(s) - 1)
SetTop(f) == [frames EXCEPT ![Len(frames)] = f]

\* a function is entered: the first one, or the one the expression under
\* evaluation calls
Enter ==
    /\ ret = None
    /\ Len(frames) < MaxDepth
    /\ IF frames = <<>> THEN TRUE ELSE Top.mac # "none"
    /\ frames' = Append(frames, Idle)
    /\ err' = ""
    /\ op' = Op("enter", None)
    /\ UNCHANGED <<ret, apiVars>>

\* the expression under evaluation produces its Result without the library
Leaf(r) ==
    /\ frames # <<>>
    /\ Top.mac # "none"
    /\ ret = None
    /\ ret' = r
    /\ err' = ""
    /\ op' = Op("leaf", None)
    /\ UNCHANGED <<frames, apiVars>>

Begin(mac, use) ==
    /\ frames # <<>>
    /\ Top.mac = "none"
    /\ ret = None
    /\ frames' = SetTop([Idle EXCEPT !.mac = mac, !.file = use.file,
                                      !.line = use.line, !.exprs = use.exprs,
                                      !.i = 1])
    /\ err' = ""
    /\ op' = Op("begin", None)
    /\ UNCHANGED <<ret, apiVars>>

\* try! receives the Result of its expression
Try ==
    /\ frames # <<>>
    /\ Top.mac = "try"
    /\ ret # None
    /\ LET m == try_match(ret, Top.file, Top.line, Top.exprs[Top.i]) IN
        IF m.ctl = "return"
        THEN /\ frames' = Front(frames)
             /\ ret' = m.val
        ELSE /\ ret' = None
             /\ frames' = SetTop(IF Top.i < Len(Top.exprs)
                                 THEN [Top EXCEPT !.i = @ + 1]
                                 ELSE [Top EXCEPT !.mac = "none", !.val = Some(m.val)])
    /\ err' = ""
    /\ op' = Op("try", None)
    /\ UNCHANGED apiVars

\* catch! receives the Result of its expression
Catch ==
    /\ frames # <<>>
    /\ Top.mac = "catch"
    /\ ret # None
    /\ LET result == catch_match(ret, Top.file, Top.line, Top.exprs[Top.i]) IN
        frames' = SetTop(IF catch_breaks(result, Top.i, Len(Top.exprs))
                         THEN [Top EXCEPT !.mac = "none", !.val = result,
                                          !.caught = result]
                         ELSE [Top EXCEPT !.i = @ + 1])
    /\ ret' = None
    /\ err' = ""
    /\ op' = Op("catch", None)
    /\ UNCHANGED apiVars

Throw(use) ==
    /\ frames # <<>>
    /\ Top.mac = "none"
    /\ ret = None
    /\ LET m == throw_block(use.value, use.file, use.line, use.expr) IN
        /\ frames' = Front(frames)
        /\ ret' = m.val
    /\ err' = ""
    /\ op' = Op("throw", use)
    /\ UNCHANGED apiVars

\* return Ok(v)
ReturnOk(v) ==
    /\ frames # <<>>
    /\ Top.mac = "none"
    /\ ret = None
    /\ frames' = Front(frames)
    /\ ret' = Ok(v)
    /\ err' = ""
    /\ op' = Op("return", None)
    /\ UNCHANGED apiVars

\* Err(mut e) => print_stack_trace!(e)
PrintStackTraceMacro ==
    /\ frames # <<>>
    /\ Top.mac = "none"
    /\ ret = None
    /\ Top.val.kind = "Err"
    /\ Top.printed < MaxPrints
    /\ LET p == print_stack_trace_block(Top.val.err, PrintUse.file,
                                        PrintUse.line, PrintUse.expr) IN
        /\ frames' = SetTop([Top EXCEPT !.val = Err(p.e), !.printed = @ + 1])
        /\ err' = p.out
    /\ op' = Op("print_stack_trace!", None)
    /\ UNCHANGED <<ret, apiVars>>

NextMacro ==
    \/ Enter
    \/ \E r \in LeafResults : Leaf(r)
    \/ \E use \in TryUses : Begin("try", use)
    \/ \E use \in CatchUses : Begin("catch", use)
    \/ Try
    \/ Catch
    \/ \E use \in ThrowUses : Throw(use)
    \/ \E v \in Values : ReturnOk(v)
    \/ PrintStackTraceMacro

MacroSpec == Init /\ [][NextMacro]_vars

----------------------------------------------------------------------------
(* What the properties are stated with *)

Reverse(s) == [k \in 1..Len(s) |-> s[Len(s) + 1 - k]]

IsThrowable(e) == e.kind \in {"Exception", "Box"}

\* the message the conversion table gives a failure value
ExpectedMessage(e) ==
    CASE e.kind \in {"str", "String"} -> e.text
      [] e.kind = "fmt::Error" -> "Formatting Exception"
      [] e.kind = "io::Error" -> e.description
      [] OTHER -> get_message(e)

PriorTrace(e) == IF IsThrowable(e) THEN get_stack_trace(e) ELSE <<>>
PriorCause(e) == IF IsThrowable(e) THEN get_cause(e) ELSE None

\* t, its cause, the cause of its cause, ...
RECURSIVE CauseChain(_)
CauseChain(t) ==
    LET c == get_cause(t) IN
    IF c.kind = "Some" THEN <<t>> \o CauseChain(c.val) ELSE <<t>>

RECURSIVE JoinUpTo(_, _)
JoinUpTo(strs, n) == IF n = 0 THEN "" ELSE JoinUpTo(strs, n - 1) \o strs[n]

\* the output format: the message line, an "at" line per entry, and each
\* cause after a "Caused by: " marker
Rendering(t) ==
    LET chain == CauseChain(t)
        AtLine(s) == "\tat " \o s.expr \o " [" \o s.file \o ":"
                     \o ToString(s.line) \o "]\n"
        Block(x) ==
            LET st == get_stack_trace(x) IN
            get_message(x) \o "\n"
            \o JoinUpTo([k \in 1..Len(st) |-> AtLine(st[k])], Len(st))
        blocks == [k \in 1..Len(chain) |->
                     (IF k > 1 THEN "Caused by: " ELSE "") \o Block(chain[k])]
    IN JoinUpTo(blocks, Len(blocks))

----------------------------------------------------------------------------
(* Properties of the object model, checked under Spec *)

\* C1: after boundaries B1 (the throw site) .. BN have each called push_stack
\* once, in that order, get_stack_trace() is [BN, .., B1]: index 0 is the entry
\* pushed last and the last index is the throw site.
OrderInvariant ==
    th # None =>
        /\ get_stack_trace(th) = Reverse(pushed)
        /\ pushed # <<>> =>
               /\ Head(get_stack_trace(th)) = pushed[Len(pushed)]
               /\ get_stack_trace(th)[Len(pushed)] = pushed[1]

OrderWitness ==
    /\ op.name = "push_stack"
    /\ Len(pushed) = 3
    /\ pushed[1] # pushed[2]
    /\ pushed[2] # pushed[3]

\* C4: into_throwable of a text value gives an Exception with that text as
\* its message, of a fmt::Error the message "Formatting Exception", of an
\* io::Error the error's own description; each has an empty trace and no
\* cause.
ConversionTotality ==
    op.name = "into_throwable" =>
        /\ th.kind = "Exception"
        /\ get_message(th) =
              (CASE op.arg.kind = "str" -> op.arg.text
                 [] op.arg.kind = "String" -> op.arg.text
                 [] op.arg.kind = "fmt::Error" -> "Formatting Exception"
                 [] op.arg.kind = "io::Error" -> op.arg.description)
        /\ get_stack_trace(th) = <<>>
        /\ get_cause(th) = None

ConversionWitness ==
    /\ op.name = "into_throwable"
    /\ op.arg.kind = "fmt::Error"
    /\ get_message(th) = "Formatting Exception"

\* C5: into_throwable of a throwable returns it unchanged: same message,
\* same trace, same cause, no new wrapping; so converting again changes
\* nothing either.
ConversionIdentity ==
    [][op'.name = "into_throwable_T" =>
          /\ th' = th
          /\ bx' = bx
          /\ get_message(th') = get_message(th)
          /\ get_stack_trace(th') = get_stack_trace(th)
          /\ get_cause(th') = get_cause(th)
          /\ into_throwable(th') = th]_vars

IdentityWitness ==
    /\ op.name = "into_throwable_T"
    /\ Len(get_stack_trace(th)) = 2
    /\ get_cause(th) # None

\* C6: new(m) has message m, an empty trace and no cause;
\* new_with_cause(m, c) has message m, an empty trace, and a cause whose
\* message, trace and cause are those of c when it was wrapped.
CausePreservation ==
    [][/\ op'.name = "new" =>
             /\ get_message(th') = op'.arg
             /\ get_stack_trace(th') = <<>>
             /\ get_cause(th') = None
       /\ op'.name = "new_with_cause" =>
             /\ get_message(th') = op'.arg
             /\ get_stack_trace(th') = <<>>
             /\ get_cause(th').kind = "Some"
             /\ LET c == get_cause(th').val IN
                   /\ get_message(c) = get_message(th)
                   /\ get_stack_trace(c) = get_stack_trace(th)
                   /\ get_cause(c) = get_cause(th)]_vars

CauseWitness ==
    /\ op.name = "new_with_cause"
    /\ get_cause(th).kind = "Some"
    /\ Len(get_stack_trace(get_cause(th).val)) = 2
    /\ get_stack_trace(th) = <<>>

FrameOfState ==
    /\ [](th # None =>
            /\ get_message(th) = get_message(made)
            /\ get_cause(th) = get_cause(made))
    /\ [][/\ op'.name \in {"get_stack_trace", "get_message", "get_cause",
                            "print_stack_trace"} =>
                 th' = th /\ bx' = bx
          /\ op'.name = "push_stack" =>
                 /\ Len(get_stack_trace(th')) = Len(get_stack_trace(th)) + 1
                 /\ Tail(get_stack_trace(th')) = get_stack_trace(th)
                 /\ Head(get_stack_trace(th')) = op'.arg
          /\ (th # None /\ get_stack_trace(th') # get_stack_trace(th)) =>
                 op'.name \in {"push_stack", "new", "new_with_cause",
                               "into_throwable"}]_vars

FrameWitness ==
    /\ op.name = "print_stack_trace"
    /\ Len(get_stack_trace(th)) = 2
    /\ get_cause(th) # None
    /\ made # th

\* C9: a Box around a throwable behaves as the throwable: push_stack on the
\* box puts the same entry at the front of the wrapped trace, and the trace,
\* the message, the cause and the printed text seen through the box are
\* those of the wrapped value.
WrapperTransparency ==
    th # None =>
        /\ bx.kind = "Box"
        /\ get_message(bx) = get_message(th)
        /\ get_stack_trace(bx) = get_stack_trace(th)
        /\ get_cause(bx).kind = get_cause(th).kind
        /\ get_cause(th).kind = "Some" =>
               /\ get_message(get_cause(bx).val) = get_message(get_cause(th).val)
               /\ get_stack_trace(get_cause(bx).val)
                    = get_stack_trace(get_cause(th).val)
        /\ print_stack_trace(bx) = print_stack_trace(th)
        /\ get_stack_trace(deref(bx)) = get_stack_trace(th)

WrapperWitness ==
    /\ op.name = "push_stack"
    /\ bx.kind = "Box"
    /\ Len(get_stack_trace(bx)) = 2
    /\ get_cause(bx).kind = "Some"
    /\ get_cause(bx).val.kind = "Box"

----------------------------------------------------------------------------
(* Properties of the macros, checked under MacroSpec *)

NewTop == frames'[Len(frames)]

\* the throwable e1 is e0 converted, with the one entry s in front
OneEntryRicher(e1, e0, s) ==
    /\ IsThrowable(e1)
    /\ get_message(e1) = ExpectedMessage(e0)
    /\ get_cause(e1) = PriorCause(e0)
    /\ get_stack_trace(e1) = <<s>> \o PriorTrace(e0)

\* C2: when the expression of try! fails, or at throw!, the failure is
\* converted, exactly one entry (this file, line and expression) is pushed
\* in front, and the enclosing function returns Err with that throwable,
\* running nothing more; when the expression succeeds the function goes on
\* with the value (with the next expression in the multi-expression form)
\* and nothing is pushed.
PropagationStep ==
    [][/\ op'.name = "try" =>
             IF ret.kind = "Err"
             THEN /\ frames' = Front(frames)
                  /\ ret'.kind = "Err"
                  /\ OneEntryRicher(ret'.err, ret.err,
                        StackEntry(Top.file, Top.line, Top.exprs[Top.i]))
             ELSE /\ ret' = None
                  /\ Len(frames') = Len(frames)
                  /\ Front(frames') = Front(frames)
                  /\ NewTop = (IF Top.i < Len(Top.exprs)
                               THEN [Top EXCEPT !.i = Top.i + 1]
                               ELSE [Top EXCEPT !.mac = "none",
                                                !.val = Some(ret.val)])
       /\ op'.name = "throw" =>
             /\ frames' = Front(frames)
             /\ ret'.kind = "Err"
             /\ OneEntryRicher(ret'.err, op'.arg.value,
                   StackEntry(op'.arg.file, op'.arg.line,
                              Stringify("throw", op'.arg.expr)))]_vars

PropagationWitness ==
    /\ op.name = "try"
    /\ frames = <<>>
    /\ ret.kind = "Err"
    /\ Len(get_stack_trace(ret.err)) = 3
    /\ get_stack_trace(ret.err)[3].line = 7
    /\ get_stack_trace(ret.err)[1].expr = "test2()"

\* C3: catch! evaluates its expressions in order and stops at the first
\* failure; its value is then that failure, converted and with one entry
\* pushed in front, and otherwise the success of the last expression; the
\* enclosing function is never exited and gets the outcome as a value.
CatchOutcome ==
    [][op'.name = "catch" =>
          /\ ret' = None
          /\ Len(frames') = Len(frames)
          /\ Front(frames') = Front(frames)
          /\ IF ret.kind = "Err"
             THEN /\ NewTop.mac = "none"
                  /\ NewTop.i = Top.i
                  /\ NewTop.val.kind = "Err"
                  /\ OneEntryRicher(NewTop.val.err, ret.err,
                        StackEntry(Top.file, Top.line, Top.exprs[Top.i]))
             ELSE IF Top.i < Len(Top.exprs)
                  THEN NewTop.mac = "catch" /\ NewTop.i = Top.i + 1
                  ELSE NewTop.mac = "none" /\ NewTop.val = Ok(ret.val)]_vars

CatchWitness ==
    /\ op.name = "catch"
    /\ frames # <<>>
    /\ Top.mac = "none"
    /\ Top.val.kind = "Err"
    /\ Top.i = 1
    /\ Len(Top.exprs) = 2
    /\ Len(get_stack_trace(Top.val.err)) = 3

\* C10: print_stack_trace! pushes one entry for the print site in front of
\* the trace and then prints, so the trace is one longer after each use and
\* the printed text starts its "at" lines with the print site; after k uses
\* the trace holds k more entries than catch! left in it, the print site
\* right before the entry catch! pushed.
PrintMacroPushes ==
    /\ [](\A d \in 1..Len(frames) :
            (frames[d].caught.kind = "Err" /\ frames[d].val.kind = "Err") =>
               /\ Len(get_stack_trace(frames[d].val.err))
                    = Len(get_stack_trace(frames[d].caught.err)) + frames[d].printed
               /\ SubSeq(get_stack_trace(frames[d].val.err),
                         frames[d].printed + 1,
                         Len(get_stack_trace(frames[d].val.err)))
                    = get_stack_trace(frames[d].caught.err)
               /\ \A k \in 1..frames[d].printed :
                     get_stack_trace(frames[d].val.err)[k].line = PrintUse.line)
    /\ [][op'.name = "print_stack_trace!" =>
            /\ NewTop.val.kind = "Err"
            /\ OneEntryRicher(NewTop.val.err, Top.val.err,
                  StackEntry(PrintUse.file, PrintUse.line,
                             Stringify("print_stack_trace", PrintUse.expr)))
            /\ err' = Rendering(NewTop.val.err)
            /\ NewTop.printed = Top.printed + 1]_vars

PrintMacroWitness ==
    /\ op.name = "print_stack_trace!"
    /\ Top.printed = 2
    /\ Len(get_stack_trace(Top.caught.err)) = 2
    /\ Len(get_stack_trace(Top.val.err)) = 4
    /\ get_stack_trace(Top.val.err)[2].line = 37
    /\ get_stack_trace(Top.val.err)[3].line = 36

====
